---- MODULE Spec2Model ----
(***************************************************************************)
(* A model of raytracer.py: the Vector3D arithmetic, Sphere.intersect,     *)
(* raytrace and Sphere.light, with the call stack of the raytrace/light    *)
(* recursion made explicit.                                                *)
(*                                                                         *)
(* Numbers.  The program computes in float64.  The model computes in       *)
(* fixed point: an integer n stands for the real n / Scale, products are   *)
(* rounded down to a multiple of 1/Scale.  A numpy array is modelled by    *)
(* one of its lanes: every numpy operation of the program is element-wise, *)
(* and the control flow (which calls are made) never reads an array.       *)
(***************************************************************************)
EXTENDS Integers, Sequences, FiniteSets

\* ------------------------------------------------------------------------
\* Fixed-point arithmetic
\* ------------------------------------------------------------------------

\* the square root of Scale
SqrtScale == 20

\* the integer that stands for 1.0
Scale == SqrtScale * SqrtScale

\* the largest n for which n * Scale is a machine integer
SqrtSplit == 2000000000 \div Scale

Max(a, b) == IF a >= b THEN a ELSE b

Min(a, b) == IF a <= b THEN a ELSE b

\* An operator of this module that reads an argument more than once is
\* written as the application of a function, [m \in Int |-> ...][a]: TLC
\* computes the argument of a function once, where it would compute the
\* argument of an operator again at every place that reads it.

\* a * b for fixed-point a and b (the product of the reals, rounded down)
Mul(a, b) ==
    [m \in Int, n \in Int |-> (m \div Scale) * n + ((m % Scale) * n) \div Scale][a, b]

\* a * (1.0 / b): the quotient of the reals, rounded down (float64 keeps the
\* relative precision of 1.0 / b, which a fixed-point reciprocal would lose)
MulRecip(a, b) == [m \in Int, n \in Int |-> (m * Scale) \div n][a, b]

\* the largest r in lo..hi with r * r <= n, by bisection
ISqrtIter[n \in Nat, lo \in Nat, hi \in Nat] ==
    IF lo >= hi THEN lo
    ELSE IF ((lo + hi + 1) \div 2) * ((lo + hi + 1) \div 2) <= n
         THEN ISqrtIter[n, (lo + hi + 1) \div 2, hi]
         ELSE ISqrtIter[n, lo, ((lo + hi + 1) \div 2) - 1]

\* np.sqrt of a fixed-point a >= 0
Sqrt(a) ==
    [m \in Nat |-> IF m <= SqrtSplit THEN ISqrtIter[m * Scale, 0, 46340]
                   ELSE ISqrtIter[m, 0, 46340] * SqrtScale][a]

\* a * a
Square(a) == [m \in Int |-> Mul(m, m)][a]

\* np.power(a, n) for a natural n
Power[a \in Int, n \in Nat] ==
    IF n = 0 THEN Scale
    ELSE IF n % 2 = 0 THEN Square(Power[a, n \div 2])
    ELSE Mul(a, Power[a, n - 1])

\* np.clip(a, lo, hi)
Clip(a, lo, hi) == Min(Max(a, lo), hi)

\* ------------------------------------------------------------------------
\* Vector3D
\* ------------------------------------------------------------------------

Vector3D(x, y, z) == [x |-> x, y |-> y, z |-> z]

\* the values of the class
Vectors == [x : Int, y : Int, z : Int]

\* Vector3D.__mul__: every component times the scalar
VMul(v, k) == Vector3D(Mul(v.x, k), Mul(v.y, k), Mul(v.z, k))

\* Vector3D.__mul__ by a reciprocal: self * (1.0 / m)
VMulRecip(v, m) == Vector3D(MulRecip(v.x, m), MulRecip(v.y, m), MulRecip(v.z, m))

\* Vector3D.__mul__ by a boolean (a numpy bool is 1 or 0)
VMask(v, m) == IF m THEN v ELSE Vector3D(0, 0, 0)

\* Vector3D.__add__
VAdd(v, w) == Vector3D(v.x + w.x, v.y + w.y, v.z + w.z)

\* Vector3D.__sub__
VSub(v, w) == Vector3D(v.x - w.x, v.y - w.y, v.z - w.z)

\* Vector3D.dot
Dot(v, w) == Mul(v.x, w.x) + Mul(v.y, w.y) + Mul(v.z, w.z)

\* Vector3D.__abs__: the squared magnitude
Abs(v) == Dot(v, v)

\* Vector3D.norm
Norm(v) ==
    [self \in Vectors |->
        LET mag == Sqrt(Abs(self))
        IN  VMulRecip(self, IF mag = 0 THEN Scale ELSE mag)][v]

Color(r, g, b) == Vector3D(r, g, b)

LightPosition == Vector3D(5 * Scale, 5 * Scale, -10 * Scale)

CameraPosition == Vector3D(0, (35 * Scale) \div 100, -Scale)

\* the distance of a ray that hits nothing: larger than every distance
\* between two points of a scene of the model
FAR_AWAY == 4000

\* ------------------------------------------------------------------------
\* Sphere
\* ------------------------------------------------------------------------

\* b, c and disc of Sphere.intersect
Ray_b(s, o, d) == 2 * Dot(d, VSub(o, s.center))

Ray_c(s, o) ==
    Abs(s.center) + Abs(o) - 2 * Dot(s.center, o) - Mul(s.radius, s.radius)

Ray_disc(s, o, d) == Mul(Ray_b(s, o, d), Ray_b(s, o, d)) - 4 * Ray_c(s, o)

\* a faulty variant: the hit test without disc > 0
HitPredNoDisc(disc, h) == h > 0

\* pred of Sphere.intersect
HitPred(disc, h) == disc > 0 /\ h > 0

\* h of Sphere.intersect
Root(h0, h1) == IF h0 > 0 /\ h0 < h1 THEN h0 ELSE h1

\* Sphere.intersect
Intersect(s, o, d) ==
    [ray_origin \in Vectors, ray_direction \in Vectors |->
        [b \in Int, disc \in Int |->
            [sq \in Int |->
                [h \in Int |-> IF HitPred(disc, h) THEN h ELSE FAR_AWAY
                ][Root((-b - sq) \div 2, (-b + sq) \div 2)]
            ][Sqrt(Max(0, disc))]
        ][Ray_b(s, ray_origin, ray_direction), Ray_disc(s, ray_origin, ray_direction)]
    ][o, d]

\* Sphere.get_diffuse_color: the attribute diffuse_color of the object, which
\* is the color __init__ stored, for a Sphere and for a CheckeredSphere alike
\* (the instance attribute hides the method CheckeredSphere.diffuse_color)
get_diffuse_color(self, intersection_point) == self.diffuse_color

\* ndarray.astype(int): the integer part, rounded toward zero
AsInt(a) == IF a >= 0 THEN a \div Scale ELSE -((-a) \div Scale)

\* CheckeredSphere.diffuse_color, which nothing calls
CheckeredDiffuse(base, intersection_point) ==
    LET checker == (AsInt(2 * intersection_point.x) % 2)
                       = (AsInt(2 * intersection_point.z) % 2)
    IN  VMask(base, checker)

\* ------------------------------------------------------------------------
\* The scene and the rays of the model
\* ------------------------------------------------------------------------

\* the most spheres a scene of the model has
MaxSpheres == 2

\* the arguments of the constructor calls the model makes:
\*  1 a fully mirrored sphere in front of the camera
\*  2 a sphere behind the camera, facing the first, that does not mirror
\*  3 a sphere between the first sphere and the light
\*  4 a checkered sphere in front of the first
\*  5 the first sphere with its radius negated
\* (no call gives the radius 0, for which 1. / self.radius raises in light)
SphereArgs ==
    << [kind |-> "Sphere", center |-> Vector3D(0, (35 * Scale) \div 100, 3 * Scale),
        radius |-> Scale, diffuse_color |-> Color(0, 0, Scale), mirror |-> Scale],
       [kind |-> "Sphere", center |-> Vector3D(0, (35 * Scale) \div 100, -5 * Scale),
        radius |-> Scale,
        diffuse_color |-> Color(Scale, Scale \div 2, Scale \div 4), mirror |-> 0],
       [kind |-> "Sphere",
        center |-> Vector3D((5 * Scale) \div 2, (2675 * Scale) \div 1000, -4 * Scale),
        radius |-> Scale,
        diffuse_color |-> Color((3 * Scale) \div 10, Scale \div 8, Scale \div 3),
        mirror |-> (7 * Scale) \div 10],
       [kind |-> "CheckeredSphere",
        center |-> Vector3D(0, (35 * Scale) \div 100, (7 * Scale) \div 4),
        radius |-> Scale,
        diffuse_color |-> Color((3 * Scale) \div 4, (3 * Scale) \div 4, (3 * Scale) \div 4),
        mirror |-> Scale \div 4],
       [kind |-> "Sphere", center |-> Vector3D(0, (35 * Scale) \div 100, 3 * Scale),
        radius |-> -Scale, diffuse_color |-> Color(0, Scale, 0),
        mirror |-> (7 * Scale) \div 10] >>

\* the points of the screen plane the model sends a ray through
Pixels ==
    { Vector3D(0, (35 * Scale) \div 100, 0),
      Vector3D(Scale \div 10, (35 * Scale) \div 100, 0),
      Vector3D(Scale, (35 * Scale) \div 100, 0) }

\* ------------------------------------------------------------------------
\* The state
\* ------------------------------------------------------------------------

VARIABLES
    pc,               \* where the script is: "setup", "running", "done", "error"
    scene,            \* scene_objects, the list of the spheres constructed
    stack,            \* the frames of the raytrace and light calls in progress
    calls,            \* how many times raytrace has been called
    resulting_color,  \* what the call of the script returned
    error             \* the exception that ended the script, or "none"

vars == <<pc, scene, stack, calls, resulting_color, error>>

\* the ambient color of Sphere.light
Ambient == Color(Scale \div 20, Scale \div 20, Scale \div 20)

\* the length of the step from the surface to nudged_point: .0001 in the
\* program, the smallest positive number of the model here
Nudge == 1

\* the exponent of the specular term
PhongExponent == 50

\* reduce(np.minimum, distances) of a non-empty list
Reduce_minimum[distances \in Seq(Int)] ==
    IF Len(distances) = 1 THEN distances[1]
    ELSE Min(Reduce_minimum[SubSeq(distances, 1, Len(distances) - 1)],
             distances[Len(distances)])

\* a faulty variant: the distance of the first sphere for the nearest
FirstDistance(distances) == distances[1]

\* nearest of raytrace, light_nearest of Sphere.light
Nearest(distances) == Reduce_minimum[distances]

\* [sphere.intersect(o, d) for sphere in sc]
Distances(sc, o, d) == [j \in 1..Len(sc) |-> Intersect(sc[j], o, d)]

\* a faulty variant: the index of the first sphere, whatever self is
IndexZero(sc, self) == 1

\* scene.index(self): the first place of the list that holds the object self
\* (Sphere defines no __eq__, so two spheres are equal when they are one object)
Index(sc, self) ==
    CHOOSE j \in 1..Len(sc) :
        sc[j].id = self.id /\ \A k \in 1..(j - 1) : sc[k].id # self.id

\* a faulty variant: one level of reflection more
ReflectDeeper(bounce) == bounce < 3

\* the condition of the reflection of Sphere.light
ReflectCond(bounce) == bounce < 2

\* a faulty variant: the reflected color unscaled
Unscaled(color, mirror) == color

\* raytrace(...) * self.mirror
Mirrored(color, mirror) == VMul(color, mirror)

\* a faulty variant: a sphere that wins the ray replaces the color
Override(color, shade, hit, won) == IF hit /\ won THEN shade ELSE color

\* a faulty variant: the sum without the test that anything was hit
AccumulateUnhit(color, shade, hit, won) == VAdd(color, VMask(shade, won))

\* color += sphere.light(...) * (nearest != FAR_AWAY) * (distance == nearest)
Accumulate(color, shade, hit, won) == VAdd(color, VMask(VMask(shade, hit), won))

\* the frame of a call of raytrace, after its lines 46 to 48; i is the place
\* the loop has come to, shades the values sphere.light(...) has returned
RaytraceFrame(ray_origin, ray_direction, sc, bounce) ==
    [distances \in Seq(Int) |->
        [fn |-> "raytrace",
         ray_origin |-> ray_origin,
         ray_direction |-> ray_direction,
         bounce |-> bounce,
         distances |-> distances,
         nearest |-> Nearest(distances),
         color |-> Color(0, 0, 0),
         i |-> 1,
         shades |-> << >>]
    ][Distances(sc, ray_origin, ray_direction)]

\* the frame of a call of Sphere.light, after its lines 78 to 82; the
\* values of the later lines are filled in by the steps that compute them
LightFrame(self, ray_origin, ray_direction, distance, bounce) ==
    [intersection_point \in Vectors |->
        [normal \in Vectors |->
            [fn |-> "light",
             self |-> self,
             ray_direction |-> ray_direction,
             distance |-> distance,
             bounce |-> bounce,
             intersection_point |-> intersection_point,
             normal |-> normal,
             to_light |-> Norm(VSub(LightPosition, intersection_point)),
             to_observer |-> Norm(VSub(CameraPosition, intersection_point)),
             nudged_point |-> VAdd(intersection_point, VMul(normal, Nudge)),
             light_distances |-> << >>,
             see_light |-> FALSE,
             used_diffuse_color |-> Color(0, 0, 0),
             diffuse |-> Color(0, 0, 0),
             traced |-> Color(0, 0, 0),
             reflection |-> Color(0, 0, 0),
             specular |-> Color(0, 0, 0),
             color |-> Color(0, 0, 0),
             at |-> "shadow"]
        ][VMulRecip(VSub(intersection_point, self.center), self.radius)]
    ][VAdd(ray_origin, VMul(ray_direction, distance))]

\* see_light of Sphere.light
SeeLight(light_distances, sc, self) ==
    light_distances[Index(sc, self)] = Nearest(light_distances)

\* the diffuse term of Sphere.light
DiffuseTerm(f) ==
    LET lambert_value == Max(Dot(f.normal, f.to_light), 0)
    IN  VMask(VMul(get_diffuse_color(f.self, f.intersection_point), lambert_value),
              f.see_light)

\* reflected_direction of Sphere.light
ReflectedDirection(f) ==
    Norm(VSub(f.ray_direction,
              VMul(VMul(f.normal, 2 * Scale), Dot(f.ray_direction, f.normal))))

\* the specular term of Sphere.light
SpecularTerm(f) ==
    [phong \in Int |->
        VMask(VMul(Color(Scale, Scale, Scale),
                   Power[Clip(phong, 0, Scale), PhongExponent]),
              f.see_light)
    ][Dot(f.normal, Norm(VAdd(f.to_light, f.to_observer)))]

Top == stack[Len(stack)]

Pop == SubSeq(stack, 1, Len(stack) - 1)

\* stack with its top frame replaced
SetTop(f) == [stack EXCEPT ![Len(stack)] = f]

\* ------------------------------------------------------------------------
\* The script
\* ------------------------------------------------------------------------

Init ==
    /\ pc = "setup"
    /\ scene = << >>
    /\ stack = << >>
    /\ calls = 0
    /\ resulting_color = Color(0, 0, 0)
    /\ error = "none"

\* Sphere.__init__, which CheckeredSphere inherits: the arguments are stored
\* as they come; id stands for the identity of the new object
Construct(args) ==
    /\ pc = "setup"
    /\ Len(scene) < MaxSpheres
    /\ scene' = Append(scene, [id |-> Len(scene) + 1,
                               kind |-> args.kind,
                               center |-> args.center,
                               radius |-> args.radius,
                               diffuse_color |-> args.diffuse_color,
                               mirror |-> args.mirror])
    /\ UNCHANGED <<pc, stack, calls, resulting_color, error>>

\* the call of raytrace of the script, for the ray through one pixel
Render(pixel) ==
    /\ pc = "setup"
    /\ scene # << >>
    /\ pc' = "running"
    /\ stack' = << RaytraceFrame(CameraPosition,
                                 Norm(VSub(pixel, CameraPosition)), scene, 0) >>
    /\ calls' = 1
    /\ UNCHANGED <<scene, resulting_color, error>>

\* the same call with no sphere in the scene: reduce of an empty list with
\* no initial value raises TypeError
RenderEmpty ==
    /\ pc = "setup"
    /\ scene = << >>
    /\ pc' = "error"
    /\ error' = "TypeError"
    /\ calls' = 1
    /\ UNCHANGED <<scene, stack, resulting_color>>

\* raytrace, the loop: the call sphere.light(...) for the next sphere
CallLight ==
    /\ pc = "running"
    /\ Top.fn = "raytrace"
    /\ Top.i <= Len(scene)
    /\ stack' = Append(stack,
                       LightFrame(scene[Top.i], Top.ray_origin, Top.ray_direction,
                                  Top.distances[Top.i], Top.bounce))
    /\ UNCHANGED <<pc, scene, calls, resulting_color, error>>

\* Sphere.light, the shadow: lines 85 to 87
Shadow ==
    /\ pc = "running"
    /\ Top.fn = "light"
    /\ Top.at = "shadow"
    /\ \E light_distances \in {Distances(scene, Top.nudged_point, Top.to_light)} :
          stack' = SetTop([Top EXCEPT
                              !.light_distances = light_distances,
                              !.see_light = SeeLight(light_distances, scene, Top.self),
                              !.at = "diffuse"])
    /\ UNCHANGED <<pc, scene, calls, resulting_color, error>>

\* Sphere.light, the ambient and the diffuse term: lines 90 to 94
Diffuse ==
    /\ pc = "running"
    /\ Top.fn = "light"
    /\ Top.at = "diffuse"
    /\ \E diffuse \in {DiffuseTerm(Top)} :
          stack' = SetTop([Top EXCEPT
                              !.used_diffuse_color =
                                  get_diffuse_color(Top.self, Top.intersection_point),
                              !.diffuse = diffuse,
                              !.color = VAdd(Ambient, diffuse),
                              !.at = "reflect"])
    /\ UNCHANGED <<pc, scene, calls, resulting_color, error>>

\* Sphere.light, the reflection: the recursive call of raytrace
Reflect ==
    /\ pc = "running"
    /\ Top.fn = "light"
    /\ Top.at = "reflect"
    /\ ReflectCond(Top.bounce)
    /\ stack' = Append(SetTop([Top EXCEPT !.at = "reflected"]),
                       RaytraceFrame(Top.nudged_point, ReflectedDirection(Top),
                                     scene, Top.bounce + 1))
    /\ calls' = calls + 1
    /\ UNCHANGED <<pc, scene, resulting_color, error>>

\* Sphere.light, the reflection when the condition is false
SkipReflect ==
    /\ pc = "running"
    /\ Top.fn = "light"
    /\ Top.at = "reflect"
    /\ ~ReflectCond(Top.bounce)
    /\ stack' = SetTop([Top EXCEPT !.at = "specular"])
    /\ UNCHANGED <<pc, scene, calls, resulting_color, error>>

\* raytrace returns to Sphere.light: color += raytrace(...) * self.mirror
ReturnToLight ==
    /\ pc = "running"
    /\ Top.fn = "raytrace"
    /\ Top.i > Len(scene)
    /\ Len(stack) > 1
    /\ LET f == stack[Len(stack) - 1]
           reflection == Mirrored(Top.color, f.self.mirror)
       IN  stack' = [Pop EXCEPT ![Len(stack) - 1] =
                        [f EXCEPT !.traced = Top.color,
                                  !.reflection = reflection,
                                  !.color = VAdd(f.color, reflection),
                                  !.at = "specular"]]
    /\ UNCHANGED <<pc, scene, calls, resulting_color, error>>

\* raytrace returns to the script
ReturnToScript ==
    /\ pc = "running"
    /\ Top.fn = "raytrace"
    /\ Top.i > Len(scene)
    /\ Len(stack) = 1
    /\ resulting_color' = Top.color
    /\ stack' = << >>
    /\ pc' = "done"
    /\ UNCHANGED <<scene, calls, error>>

\* Sphere.light, the specular term
Specular ==
    /\ pc = "running"
    /\ Top.fn = "light"
    /\ Top.at = "specular"
    /\ \E specular \in {SpecularTerm(Top)} :
          stack' = SetTop([Top EXCEPT !.specular = specular,
                                      !.color = VAdd(Top.color, specular),
                                      !.at = "return"])
    /\ UNCHANGED <<pc, scene, calls, resulting_color, error>>

\* Sphere.light returns to the loop of raytrace, which adds the masked color
LightReturn ==
    /\ pc = "running"
    /\ Top.fn = "light"
    /\ Top.at = "return"
    /\ LET r == stack[Len(stack) - 1]
       IN  stack' = [Pop EXCEPT ![Len(stack) - 1] =
                        [r EXCEPT !.color = Accumulate(r.color, Top.color,
                                                       r.nearest # FAR_AWAY,
                                                       Top.distance = r.nearest),
                                  !.shades = Append(r.shades, Top.color),
                                  !.i = r.i + 1]]
    /\ UNCHANGED <<pc, scene, calls, resulting_color, error>>

Next ==
    \/ \E k \in 1..Len(SphereArgs) : Construct(SphereArgs[k])
    \/ \E pixel \in Pixels : Render(pixel)
    \/ RenderEmpty
    \/ CallLight
    \/ Shadow
    \/ Diffuse
    \/ Reflect
    \/ SkipReflect
    \/ ReturnToLight
    \/ ReturnToScript
    \/ Specular
    \/ LightReturn

Spec == Init /\ [][Next]_vars

\* the script runs on: a step that can be taken is taken
FairSpec == Spec /\ WF_vars(Next)

\* ------------------------------------------------------------------------
\* Properties
\* ------------------------------------------------------------------------

Zero == Color(0, 0, 0)

\* the places of the stack that hold a frame of raytrace, of Sphere.light
RaytraceFrames == {k \in 1..Len(stack) : stack[k].fn = "raytrace"}

LightFrames == {k \in 1..Len(stack) : stack[k].fn = "light"}

\* the frames of raytrace whose loop has ended
Finished == {k \in RaytraceFrames : stack[k].i > Len(scene)}

RECURSIVE SumOver(_, _)
\* the sum of the colors shades[j] for the j of the set places
SumOver(shades, places) ==
    IF places = {} THEN Zero
    ELSE LET j == CHOOSE n \in places : TRUE
         IN  VAdd(shades[j], SumOver(shades, places \ {j}))

\* the spheres whose distance is the least of the frame, when something is hit
Winners(f) ==
    {j \in 1..Len(scene) :
        /\ f.distances[j] # FAR_AWAY
        /\ \A n \in 1..Len(scene) : f.distances[j] <= f.distances[n]}

\* C1, safety: every frame of raytrace and of light has a bounce of 0, 1 or 2;
\* the first call has bounce 0, and a call of raytrace above it is made by a
\* light whose bounce is less than 2 and gets that bounce plus one.
BounceBounded ==
    /\ \A k \in 1..Len(stack) : stack[k].bounce \in {0, 1, 2}
    /\ Len(stack) > 0 => stack[1].fn = "raytrace" /\ stack[1].bounce = 0
    /\ \A k \in 2..Len(stack) :
          IF stack[k].fn = "raytrace"
          THEN /\ stack[k - 1].fn = "light"
               /\ stack[k - 1].bounce < 2
               /\ stack[k].bounce = stack[k - 1].bounce + 1
          ELSE /\ stack[k - 1].fn = "raytrace"
               /\ stack[k].bounce = stack[k - 1].bounce

\* C1: the reflection is bounded in depth, and a call of raytrace made by the
\* script on a scene that is not empty returns.
C1_RecursionTerminates == []BounceBounded /\ ((pc = "running") ~> (pc = "done"))

\* C1, witness: two spheres face each other, and the ray reflected twice hits
\* one of them at bounce 2, where light makes no further call.
C1_Witness ==
    /\ Len(stack) = 6
    /\ Top.fn = "light" /\ Top.bounce = 2 /\ Top.at = "specular"
    /\ Top.distance # FAR_AWAY
    /\ stack[4].distance # FAR_AWAY /\ stack[2].distance # FAR_AWAY
    /\ stack[2].self.mirror = Scale

\* C2, as claimed: the nearest distance is at most the distance of every
\* sphere and, when something is hit, is the distance of exactly one sphere.
C2_ExactlyOneWinner ==
    \A k \in RaytraceFrames :
        LET f == stack[k]
            dist(j) == Intersect(scene[j], f.ray_origin, f.ray_direction)
        IN  /\ \A j \in 1..Len(scene) : f.nearest <= dist(j)
            /\ f.nearest # FAR_AWAY =>
                  Cardinality({j \in 1..Len(scene) : dist(j) = f.nearest}) = 1

\* C2, amended: the nearest distance is at most the distance of every sphere
\* and, when something is hit, is the distance of at least one sphere.
C2_NearestIsMinimum ==
    \A k \in RaytraceFrames :
        LET f == stack[k]
            dist(j) == Intersect(scene[j], f.ray_origin, f.ray_direction)
        IN  /\ \A j \in 1..Len(scene) : f.nearest <= dist(j)
            /\ f.nearest # FAR_AWAY =>
                  \E j \in 1..Len(scene) : dist(j) = f.nearest

\* C2, witness: a ray hits two spheres at different distances, and the second
\* of the list is the nearer.
C2_Witness ==
    /\ Len(stack) = 1
    /\ Len(scene) = 2
    /\ Top.distances[2] = Top.nearest
    /\ Top.distances[1] > Top.nearest
    /\ Top.distances[1] # FAR_AWAY

\* the frames of Sphere.light that have computed see_light
Shaded == {k \in LightFrames : stack[k].at # "shadow"}

\* C3: the lit mask of a call of Sphere.light is true exactly when the
\* distance of its own sphere along the shadow ray is at most that of every
\* sphere of the scene; when the mask is false the diffuse and the specular
\* term are zero and the color returned is the ambient color plus the
\* reflection.
C3_LitMask ==
    \A k \in Shaded :
        LET f == stack[k]
            own == Intersect(f.self, f.nudged_point, f.to_light)
        IN  /\ f.see_light <=>
                  \A j \in 1..Len(scene) :
                      own <= Intersect(scene[j], f.nudged_point, f.to_light)
            /\ ~f.see_light /\ f.at # "diffuse" => f.diffuse = Zero
            /\ ~f.see_light /\ f.at = "return" =>
                  /\ f.specular = Zero
                  /\ f.color = VAdd(Color(Scale \div 20, Scale \div 20, Scale \div 20),
                                    f.reflection)

\* C3, witness: a ray of the camera hits a sphere on the side that faces the
\* light, another sphere stands between the point and the light, and light
\* is about to return the color of the point.
C3_Witness ==
    /\ Len(stack) = 2
    /\ Top.at = "return"
    /\ Top.distance # FAR_AWAY
    /\ ~Top.see_light
    /\ Dot(Top.normal, Top.to_light) > 0
    /\ Top.used_diffuse_color # Zero
    /\ Top.color = VAdd(Ambient, Top.reflection)

\* C4, as claimed: no call of raytrace is made by the light of a sphere whose
\* mirror coefficient is 0.
C4_NoCallWhenMirrorZero ==
    \A k \in RaytraceFrames : k > 1 => stack[k - 1].self.mirror # 0

\* C4, amended: the light of a sphere whose mirror coefficient is 0 calls
\* raytrace whenever its bounce is less than 2, as the light of any sphere
\* does, and the reflection adds nothing to its color.
C4_MirrorZeroAddsNothing ==
    /\ [](\A k \in LightFrames :
             stack[k].self.mirror = 0 =>
                /\ stack[k].reflection = Zero
                /\ stack[k].at = "return" =>
                      stack[k].color =
                          VAdd(VAdd(Ambient, stack[k].diffuse), stack[k].specular))
    /\ [][(/\ stack # << >>
           /\ Top.fn = "light"
           /\ Top.at = "reflect"
           /\ Top.self.mirror = 0
           /\ Top.bounce < 2)
          => (/\ Len(stack') = Len(stack) + 1
              /\ stack'[Len(stack')].fn = "raytrace"
              /\ stack'[Len(stack')].bounce = Top.bounce + 1
              /\ calls' = calls + 1)]_vars

\* C4, witness: the light of a sphere whose mirror coefficient is 0 has got
\* a color that is not black from its call of raytrace, and has added none
\* of it.
C4_Witness ==
    /\ stack # << >>
    /\ Top.fn = "light"
    /\ Top.at = "specular"
    /\ Top.self.mirror = 0
    /\ Top.distance # FAR_AWAY
    /\ Top.traced # Zero
    /\ Top.reflection = Zero

\* the frames of Sphere.light that have looked up the diffuse color
Colored == {k \in LightFrames : stack[k].at \notin {"shadow", "diffuse"}}

\* floor(2x) mod 2 = floor(2z) mod 2 at the point p
SameParity(p) == ((2 * p.x) \div Scale) % 2 = ((2 * p.z) \div Scale) % 2

\* C5, as claimed: the diffuse color that the shading of a point uses is, for
\* a CheckeredSphere, the base color where floor(2x) and floor(2z) have the
\* same parity and black elsewhere, and for a Sphere the base color.
C5_CheckeredDiffuse ==
    \A k \in Colored :
        LET f == stack[k]
        IN  f.used_diffuse_color =
                IF f.self.kind = "CheckeredSphere" /\ ~SameParity(f.intersection_point)
                THEN Zero
                ELSE f.self.diffuse_color

\* the distance the claim C6 gives for the sphere s and the ray from o along d
SmallestPositiveRoot(s, o, d) ==
    LET disc == Ray_disc(s, o, d)
        sq == Sqrt(Max(0, disc))
        h0 == (-Ray_b(s, o, d) - sq) \div 2
        h1 == (-Ray_b(s, o, d) + sq) \div 2
    IN  IF disc <= 0 THEN FAR_AWAY
        ELSE IF h0 > 0 THEN h0
        ELSE IF h1 > 0 THEN h1
        ELSE FAR_AWAY

\* C6: every distance Sphere.intersect has returned, for a ray of raytrace or
\* for a shadow ray, is FAR_AWAY or positive: it is FAR_AWAY when disc <= 0
\* and when no root is positive, and the smallest positive root otherwise.
C6_IntersectResult ==
    /\ \A k \in RaytraceFrames : \A j \in 1..Len(scene) :
          /\ stack[k].distances[j] = FAR_AWAY \/ stack[k].distances[j] > 0
          /\ stack[k].distances[j] =
                SmallestPositiveRoot(scene[j], stack[k].ray_origin,
                                     stack[k].ray_direction)
    /\ \A k \in Shaded : \A j \in 1..Len(scene) :
          /\ stack[k].light_distances[j] = FAR_AWAY \/ stack[k].light_distances[j] > 0
          /\ stack[k].light_distances[j] =
                SmallestPositiveRoot(scene[j], stack[k].nudged_point,
                                     stack[k].to_light)

\* the rays of the frames of the stack, each a pair of origin and direction
RaysCast ==
    {<<stack[k].ray_origin, stack[k].ray_direction>> : k \in RaytraceFrames}
        \cup {<<stack[k].nudged_point, stack[k].to_light>> : k \in Shaded}

\* C6, witness: the rays of the calls in progress show the four cases, a hit
\* at the nearer root, a hit at the farther root from inside the sphere, a
\* sphere ahead that the ray passes (disc < 0, b < 0), and a sphere behind
\* the origin (both roots negative).
C6_Witness ==
    /\ \E r \in RaysCast : \E j \in 1..Len(scene) :
          /\ Ray_disc(scene[j], r[1], r[2]) > 0
          /\ Ray_c(scene[j], r[1]) > 0
          /\ Intersect(scene[j], r[1], r[2]) # FAR_AWAY
    /\ \E r \in RaysCast : \E j \in 1..Len(scene) :
          /\ Ray_disc(scene[j], r[1], r[2]) > 0
          /\ Ray_c(scene[j], r[1]) < 0
          /\ Intersect(scene[j], r[1], r[2]) # FAR_AWAY
    /\ \E r \in RaysCast : \E j \in 1..Len(scene) :
          /\ Ray_disc(scene[j], r[1], r[2]) < 0
          /\ Ray_b(scene[j], r[1], r[2]) < 0
          /\ Intersect(scene[j], r[1], r[2]) = FAR_AWAY
    /\ \E r \in RaysCast : \E j \in 1..Len(scene) :
          /\ Ray_disc(scene[j], r[1], r[2]) > 0
          /\ Ray_b(scene[j], r[1], r[2]) > 0
          /\ Ray_c(scene[j], r[1]) > 0
          /\ Intersect(scene[j], r[1], r[2]) = FAR_AWAY

\* C7, as claimed: a sphere of negative radius is not in the scene unless the
\* script has ended with an invalid-input error, before any frame exists.
C7_NegativeRadiusRejected ==
    (\E j \in 1..Len(scene) : scene[j].radius < 0) =>
        /\ error \notin {"none", "TypeError"}
        /\ pc = "error"
        /\ stack = << >>

\* C8: when the loop of raytrace has ended, its color is the sum of the
\* colors light returned for the spheres whose distance is the least of the
\* scene, and is black when no sphere is hit.
C8_ColorIsSumOfNearest ==
    \A k \in Finished :
        LET f == stack[k]
        IN  /\ f.color = SumOver(f.shades, Winners(f))
            /\ (\A j \in 1..Len(scene) : f.distances[j] = FAR_AWAY) => f.color = Zero

\* C8, witness: the ray hits two spheres at different distances, light has
\* returned a color for each, and the color of the ray is that of the nearer.
C8_Witness ==
    /\ Len(stack) = 1
    /\ Len(scene) = 2
    /\ Top.i > Len(scene)
    /\ Top.distances[2] < Top.distances[1]
    /\ Top.distances[1] # FAR_AWAY
    /\ Top.shades[1] # Zero
    /\ Top.color = Top.shades[2]

\* the spheres tied for the nearest distance of a frame, when they are many
Tied(f) == IF Cardinality(Winners(f)) >= 2 THEN Winners(f) ELSE {}

\* the last of a set of places
Last(places) == CHOOSE j \in places : \A n \in places : n <= j

\* C9, as claimed: when several spheres have the nearest distance, the color
\* of the ray is the color light returned for the last of them.
C9_LastTiedSphereOverrides ==
    \A k \in Finished :
        Tied(stack[k]) # {} =>
            stack[k].color = stack[k].shades[Last(Tied(stack[k]))]

\* C9, amended: when several spheres have the nearest distance, the color of
\* the ray is the sum of the colors light returned for them.
C9_TiedSpheresAreSummed ==
    \A k \in Finished :
        Tied(stack[k]) # {} =>
            stack[k].color = SumOver(stack[k].shades, Tied(stack[k]))

\* C9, witness: a ray of the camera hits two spheres at one distance, and its
\* color is not the color of either.
C9_Witness ==
    /\ Len(stack) = 1
    /\ Top.i > Len(scene)
    /\ Tied(Top) = {1, 2}
    /\ Top.color # Top.shades[1]
    /\ Top.color # Top.shades[2]
    /\ Top.color = VAdd(Top.shades[1], Top.shades[2])

\* C10, as claimed: a render calls raytrace three times, once for the ray of
\* the camera and once for each of the two levels of reflection.
C10_ThreeCalls == pc = "done" => calls = 3

\* C10, amended: a render of a scene of n spheres calls raytrace 1 + n + n * n
\* times, for every light of a bounce less than 2 makes one call, and every
\* raytrace calls the light of every sphere.
C10_CallsGrowWithScene ==
    /\ pc = "done" => calls = 1 + Len(scene) + Len(scene) * Len(scene)
    /\ \A k \in LightFrames :
          k < Len(stack) <=> stack[k].at = "reflected"

\* C10, witness: a render of a scene of two spheres has ended after seven
\* calls of raytrace.
C10_Witness == pc = "done" /\ Len(scene) = 2 /\ calls = 7

====
